---- MODULE Spec2Model ----
(***************************************************************************)
(* Fromage (pytorch_optimizer/optimizer/fromage.py): the constructor, the  *)
(* reset operation and the step operation, as a state machine.             *)
(*                                                                         *)
(* Numbers.  A float is modelled by an exact rational <<n, d>>, d > 0, in  *)
(* lowest terms, so that equal numbers are equal values.  The learning     *)
(* rates are drawn from rates lr for which 1 + lr^2 is the square of a     *)
(* rational (3/4, 4/3, 0 and their negatives), which makes                 *)
(* math.sqrt(1 + lr ** 2) exact.  Python's None is the pair <<0, 0>>,      *)
(* which is no rational.                                                   *)
(*                                                                         *)
(* Tensors.  A parameter is a one-element tensor; its Euclidean norm is    *)
(* the absolute value of its element.  A gradient is None or a record      *)
(* [is_sparse, data].                                                      *)
(*                                                                         *)
(* Dictionaries.  A Python dict is a function whose DOMAIN is its key set; *)
(* d[k] on a missing key raises KeyError.                                  *)
(***************************************************************************)
EXTENDS Integers, Sequences, FiniteSets, TLC

VARIABLES
    value,         \* p.data of every parameter tensor (owned by the training loop)
    constructed,   \* "no": __init__ not yet called; "yes": it returned; "failed": it raised
    lr,            \* self.lr
    defaults,      \* self.defaults
    param_groups,  \* self.param_groups: a sequence of group dicts
    state,         \* self.state: a defaultdict(dict) keyed by parameter
    calls,         \* number of reset/step calls made so far
    last,          \* the most recent call: its inputs, the state before it, its outcome
    est            \* history: per parameter, the norm it had when its bound was last established

vars == <<value, constructed, lr, defaults, param_groups, state, calls, last, est>>

(***************************************************************************)
(* Bounds and input sets.                                                  *)
(***************************************************************************)
MaxCalls == 3

Params == {1, 2}

None == <<0, 0>>

\* ---------------------------------------------------------------- numbers
Abs(n) == IF n < 0 THEN -n ELSE n

RECURSIVE GCD(_, _)
GCD(a, b) == IF b = 0 THEN a ELSE GCD(b, a % b)

Rat(n, d) ==
    LET g == GCD(Abs(n), Abs(d))
        s == IF d < 0 THEN -1 ELSE 1
    IN  <<(s * n) \div g, (s * d) \div g>>

Zero == <<0, 1>>
One == <<1, 1>>

RNeg(a) == <<-a[1], a[2]>>
RAdd(a, b) == Rat(a[1] * b[2] + b[1] * a[2], a[2] * b[2])
RSub(a, b) == RAdd(a, RNeg(b))
RMul(a, b) == Rat(a[1] * b[1], a[2] * b[2])
RDiv(a, b) == Rat(a[1] * b[2], a[2] * b[1])
RGt(a, b) == a[1] * b[2] > b[1] * a[2]
RLe(a, b) == ~RGt(a, b)

\* the integer k with k * k = n (n a perfect square)
ISqrt(n) == CHOOSE k \in 0..n : k * k = n

\* math.sqrt on a rational that is the square of a rational
Sqrt(a) == <<ISqrt(a[1]), ISqrt(a[2])>>

\* torch.Tensor.norm() of a one-element tensor
Norm(x) == <<Abs(x[1]), x[2]>>

\* ------------------------------------------------------------ dictionaries
EmptyDict == [k \in {} |-> None]

\* d[k] = v
SetItem(d, k, v) == [j \in DOMAIN d \cup {k} |-> IF j = k THEN v ELSE d[j]]

\* len(d)
DictLen(d) == Cardinality(DOMAIN d)

\* ----------------------------------------------------------------- errors
NoError == <<"", "">>

\* Fromage.__str__
Str == "Fromage"

NoSparseGradientError(name) == <<"NoSparseGradientError", name>>
KeyError(key) == <<"KeyError", key>>
InvalidConfigurationError == <<"InvalidConfigurationError", "lr">>

\* ----------------------------------------------------------------- inputs
\* p.grad is None
NoGrad == [is_sparse |-> FALSE, data |-> None]

Dense(x) == [is_sparse |-> FALSE, data |-> x]
Sparse(x) == [is_sparse |-> TRUE, data |-> x]

GradSet == {NoGrad, Sparse(<<2, 1>>), Dense(Zero), Dense(<<2, 1>>)}

\* a closure is modelled by the loss it returns; None: no closure supplied
ClosureSet == {None, <<7, 2>>}

InitValues == {<<<<4, 1>>, Zero>>, <<Zero, <<-2, 1>>>>, <<<<-2, 1>>, <<4, 1>>>>}

LrArgs == {<<-3, 4>>, Zero, <<3, 4>>}

PBoundArgs == {None, <<1, 2>>, <<5, 4>>}

\* the params argument: a sequence of group dicts, each with its parameters
\* and its own overrides of the defaults
ParamsArgs ==
    { <<[params |-> <<1, 2>>]>>,
      <<[params |-> <<1>>], [params |-> <<2>>, lr |-> <<-4, 3>>]>> }

\* the record of a call
Call(op, closure, grads, c, ret) ==
    [op |-> op, closure |-> closure, grads |-> grads,
     value |-> value, state |-> state,
     mid |-> c.mid, log |-> c.log, err |-> c.err, ret |-> ret]

\* the context a handler works on: the tensors, self.state, the value each
\* parameter had after line 86, the order of the handler's accesses, and
\* the exception that ended it
Context ==
    [value |-> value, state |-> state, mid |-> [p \in Params |-> None],
     log |-> <<>>, err |-> NoError]

Raise(c, e, p) == [c EXCEPT !.err = e, !.log = Append(@, <<"raise", p>>)]

Log(c, what, p) == [c EXCEPT !.log = Append(@, <<what, p>>)]

\* ------------------------------------------------------------ construction
\* BaseOptimizer.validate_learning_rate
validate_learning_rate(learning_rate) ==
    IF RLe(learning_rate, Zero) THEN InvalidConfigurationError ELSE NoError

\* a constructor that does not validate
validate_parameters_Skipped(self_lr) == NoError

\* Fromage.validate_parameters
validate_parameters(self_lr) == validate_learning_rate(self_lr)

\* lines 36-38
MakeDefaults(lr_arg, p_bound) ==
    IF p_bound # None
    THEN [lr |-> lr_arg, p_bound |-> p_bound]
    ELSE [lr |-> lr_arg]

\* Optimizer.add_param_group: a key the group does not set takes the default
add_param_group(group, dflt) ==
    [k \in DOMAIN group \cup DOMAIN dflt |->
        IF k \in DOMAIN group THEN group[k] ELSE dflt[k]]

\* Optimizer.__init__ (line 40)
MakeGroups(params, dflt) ==
    [i \in 1..Len(params) |-> add_param_group(params[i], dflt)]

\* ------------------------------------------------------------------ state
\* state = self.state[p] (lines 52, 74): a defaultdict makes the entry
Entry(p, c) ==
    IF p \in DOMAIN c.state
    THEN c
    ELSE [c EXCEPT !.state =
            [q \in DOMAIN c.state \cup {p} |->
                IF q = p THEN EmptyDict ELSE c.state[q]]]

\* state['max'] = p.norm().mul_(group['p_bound']) (lines 55, 77)
SetMax(group, p, c) ==
    LET c1 == Log(c, "norm", p)
    IN  [c1 EXCEPT !.state[p] =
            SetItem(@, "max", RMul(Norm(c.value[p]), group.p_bound))]

\* ------------------------------------------------------------------ reset
\* lines 52-55
ResetParam(group, p, c) ==
    LET c1 == Entry(p, c)
    IN  IF "p_bound" \notin DOMAIN group
        THEN Raise(c1, KeyError("p_bound"), p)
        ELSE IF group.p_bound # None THEN SetMax(group, p, c1) ELSE c1

\* line 51
RECURSIVE ResetParams(_, _, _)
ResetParams(group, ps, c) ==
    IF ps = <<>> \/ c.err # NoError
    THEN c
    ELSE ResetParams(group, Tail(ps), ResetParam(group, Head(ps), c))

\* line 50
RECURSIVE ResetGroups(_, _)
ResetGroups(groups, c) ==
    IF groups = <<>> \/ c.err # NoError
    THEN c
    ELSE ResetGroups(Tail(groups),
                     ResetParams(Head(groups), Head(groups).params, c))

\* Fromage.reset
ResetCall(c) == ResetGroups(param_groups, c)

\* ------------------------------------------------------------------- step
\* the bound is taken anew on every step
LazyInit_Always(group, p, c) ==
    IF "p_bound" \notin DOMAIN group
    THEN Raise(c, KeyError("p_bound"), p)
    ELSE IF group.p_bound # None THEN SetMax(group, p, c) ELSE c

\* lines 76-77
LazyInit(group, p, c) ==
    IF DictLen(c.state[p]) = 0
    THEN IF "p_bound" \notin DOMAIN group
         THEN Raise(c, KeyError("p_bound"), p)
         ELSE IF group.p_bound # None THEN SetMax(group, p, c) ELSE c
    ELSE c

\* lines 79-84
Update(group, p, grad, c) ==
    LET p_norm == Norm(c.value[p])
        g_norm == Norm(grad.data)
        alpha  == RNeg(group.lr)
        c1     == Log(Log(c, "norm", p), "add_", p)
    IN  IF RGt(p_norm, Zero) /\ RGt(g_norm, Zero)
        THEN [c1 EXCEPT !.value[p] =
                RAdd(@, RMul(alpha, RMul(grad.data, RDiv(p_norm, g_norm))))]
        ELSE [c1 EXCEPT !.value[p] = RAdd(@, RMul(alpha, grad.data))]

\* line 86
Damp(prefactor, p, c) ==
    LET x == RDiv(c.value[p], prefactor)
    IN  [Log(c, "div_", p) EXCEPT !.value[p] = x, !.mid[p] = x]

\* no projection
Project_Unclamped(group, p, c) ==
    IF "p_bound" \notin DOMAIN group
    THEN Raise(c, KeyError("p_bound"), p)
    ELSE c

\* a projection that guards against a zero max_norm
Project_SkipZeroMax(group, p, c) ==
    IF "p_bound" \notin DOMAIN group
    THEN Raise(c, KeyError("p_bound"), p)
    ELSE IF group.p_bound # None
         THEN LET p_norm == Norm(c.value[p])
                  max    == c.state[p]["max"]
              IN  IF RGt(max, Zero) /\ RGt(p_norm, max)
                  THEN [Log(c, "mul_", p) EXCEPT !.value[p] =
                          RDiv(RMul(@, max), p_norm)]
                  ELSE c
         ELSE c

\* lines 88-91
Project(group, p, c) ==
    IF "p_bound" \notin DOMAIN group
    THEN Raise(c, KeyError("p_bound"), p)
    ELSE IF group.p_bound # None
         THEN LET p_norm == Norm(c.value[p])
                  max    == c.state[p]["max"]
              IN  IF RGt(p_norm, max)
                  THEN [Log(c, "mul_", p) EXCEPT !.value[p] =
                          RDiv(RMul(@, max), p_norm)]
                  ELSE c
         ELSE c

\* the sparse gradient is rejected only after the state was set up
StepParam_LateSparseCheck(group, prefactor, p, grad, c) ==
    LET c0 == Log(c, "grad", p)
    IN  IF grad = NoGrad
        THEN c0
        ELSE LET c1 == LazyInit(group, p, Entry(p, c0))
             IN  IF c1.err # NoError
                 THEN c1
                 ELSE IF grad.is_sparse
                      THEN Raise(c1, NoSparseGradientError(Str), p)
                      ELSE Project(group, p,
                               Damp(prefactor, p, Update(group, p, grad, c1)))

\* a missing gradient is taken for a zero gradient
StepParam_NoSkip(group, prefactor, p, grad, c) ==
    LET c0 == Log(c, "grad", p)
        g  == IF grad = NoGrad THEN Dense(Zero) ELSE grad
    IN  IF g.is_sparse
        THEN Raise(c0, NoSparseGradientError(Str), p)
        ELSE LET c1 == LazyInit(group, p, Entry(p, c0))
             IN  IF c1.err # NoError
                 THEN c1
                 ELSE Project(group, p,
                          Damp(prefactor, p, Update(group, p, g, c1)))

\* lines 67-91: one pass of the loop over the parameters of a group
StepParam(group, prefactor, p, grad, c) ==
    LET c0 == Log(c, "grad", p)
    IN  IF grad = NoGrad
        THEN c0
        ELSE IF grad.is_sparse
             THEN Raise(c0, NoSparseGradientError(Str), p)
             ELSE LET c1 == LazyInit(group, p, Entry(p, c0))
                  IN  IF c1.err # NoError
                      THEN c1
                      ELSE Project(group, p,
                               Damp(prefactor, p, Update(group, p, grad, c1)))

\* line 66
RECURSIVE StepParams(_, _, _, _, _)
StepParams(group, prefactor, ps, grads, c) ==
    IF ps = <<>> \/ c.err # NoError
    THEN c
    ELSE StepParams(group, prefactor, Tail(ps), grads,
                    StepParam(group, prefactor, Head(ps), grads[Head(ps)], c))

\* line 65
Prefactor(group) == Sqrt(RAdd(One, RMul(group.lr, group.lr)))

\* line 64
RECURSIVE StepGroups(_, _, _)
StepGroups(groups, grads, c) ==
    IF groups = <<>> \/ c.err # NoError
    THEN c
    ELSE StepGroups(Tail(groups), grads,
                    StepParams(Head(groups), Prefactor(Head(groups)),
                               Head(groups).params, grads, c))

\* lines 59-62: loss = closure()
CallClosure(closure, c) ==
    IF closure # None THEN Log(c, "closure", 0) ELSE c

\* the closure is called after the parameters were updated
StepCall_ClosureLast(closure, grads, c) ==
    LET loss == closure
        c1   == StepGroups(param_groups, grads, c)
        c2   == IF c1.err = NoError THEN CallClosure(closure, c1) ELSE c1
    IN  [c |-> c2, ret |-> IF c2.err = NoError THEN loss ELSE None]

\* Fromage.step: the context it leaves and the value it returns (line 93);
\* a call that raised returns nothing
StepCall(closure, grads, c) ==
    LET loss == closure
        c1   == StepGroups(param_groups, grads, CallClosure(closure, c))
    IN  [c |-> c1, ret |-> IF c1.err = NoError THEN loss ELSE None]

\* ---------------------------------------------------------------- history
RECURSIVE Flatten(_)
Flatten(groups) ==
    IF groups = <<>> THEN <<>> ELSE Head(groups).params \o Flatten(Tail(groups))

\* the order in which the loops of reset and step visit the parameters
Order == Flatten(param_groups)

Pos(p) == CHOOSE i \in 1..Len(Order) : Order[i] = p

GroupOf(p) ==
    param_groups[CHOOSE i \in 1..Len(param_groups) :
                    \E j \in 1..Len(param_groups[i].params) :
                        param_groups[i].params[j] = p]

\* the group of p has a p_bound, and it is not None
Bounded(p) == "p_bound" \in DOMAIN GroupOf(p) /\ GroupOf(p).p_bound # None

IsDense(g) == g # NoGrad /\ ~g.is_sparse
IsSparse(g) == g # NoGrad /\ g.is_sparse

\* the call was given a dense gradient for p and none of the parameters
\* before p had a sparse one
Processed(p, grads) ==
    /\ IsDense(grads[p])
    /\ \A q \in Params : Pos(q) < Pos(p) => ~IsSparse(grads[q])

NoGrads == [p \in Params |-> NoGrad]

NoEst == [norm |-> None, by |-> "none", updated |-> FALSE]

EstAfterReset ==
    [p \in Params |->
        IF Bounded(p)
        THEN [norm |-> Norm(value[p]), by |-> "reset", updated |-> FALSE]
        ELSE est[p]]

EstAfterStep(grads) ==
    [p \in Params |->
        IF Bounded(p) /\ Processed(p, grads)
        THEN IF est[p].by = "none"
             THEN [norm |-> Norm(value[p]), by |-> "step", updated |-> TRUE]
             ELSE [est[p] EXCEPT !.updated = TRUE]
        ELSE est[p]]

\* ---------------------------------------------------------------- actions
Init ==
    /\ value \in InitValues
    /\ constructed = "no"
    /\ lr = None
    /\ defaults = EmptyDict
    /\ param_groups = <<>>
    /\ state = [p \in {} |-> EmptyDict]
    /\ calls = 0
    /\ last = Call("none", None, NoGrads, Context, None)
    /\ est = [p \in Params |-> NoEst]

\* Fromage.__init__
Fromage(params, lr_arg, p_bound) ==
    /\ constructed = "no"
    /\ lr' = lr_arg
    /\ LET e == validate_parameters(lr_arg)
       IN  IF e # NoError
           THEN /\ constructed' = "failed"
                /\ last' = Call("init", None, NoGrads, [Context EXCEPT !.err = e], None)
                /\ UNCHANGED <<defaults, param_groups>>
           ELSE /\ constructed' = "yes"
                /\ defaults' = MakeDefaults(lr_arg, p_bound)
                /\ param_groups' = MakeGroups(params, MakeDefaults(lr_arg, p_bound))
                /\ last' = Call("init", None, NoGrads, Context, None)
    /\ UNCHANGED <<value, state, calls, est>>

\* Fromage.reset
Reset ==
    /\ constructed = "yes"
    /\ calls < MaxCalls
    /\ LET c == ResetCall(Context)
       IN  /\ value' = c.value
           /\ state' = c.state
           /\ last' = Call("reset", None, NoGrads, c, None)
    /\ est' = EstAfterReset
    /\ calls' = calls + 1
    /\ UNCHANGED <<constructed, lr, defaults, param_groups>>

\* Fromage.step
Step(closure, grads) ==
    /\ constructed = "yes"
    /\ calls < MaxCalls
    /\ LET r == StepCall(closure, grads, Context)
       IN  /\ value' = r.c.value
           /\ state' = r.c.state
           /\ last' = Call("step", closure, grads, r.c, r.ret)
    /\ est' = EstAfterStep(grads)
    /\ calls' = calls + 1
    /\ UNCHANGED <<constructed, lr, defaults, param_groups>>

Next ==
    \/ \E params \in ParamsArgs, lr_arg \in LrArgs, p_bound \in PBoundArgs :
          Fromage(params, lr_arg, p_bound)
    \/ Reset
    \/ \E closure \in ClosureSet, grads \in [Params -> GradSet] :
          Step(closure, grads)

Spec == Init /\ [][Next]_vars

\* ----------------------------------------------------------------- claims
Ready == constructed = "yes"

PB(p) == GroupOf(p).p_bound

HasMax(st, p) == p \in DOMAIN st /\ "max" \in DOMAIN st[p]

\* the call left self.state[p] as it was, absent or present
SameState(p) ==
    /\ (p \in DOMAIN state) = (p \in DOMAIN last.state)
    /\ p \in DOMAIN state => state[p] = last.state[p]

\* the loop of the last call got as far as reading p.grad
Reached(p) == \E i \in 1..Len(last.log) : last.log[i] = <<"grad", p>>

Projected(p) == \E i \in 1..Len(last.log) : last.log[i] = <<"mul_", p>>

\* what the update rule and the damping make of p, from the value and the
\* gradient the last call started with
ExpectedMid(p) ==
    LET x      == last.value[p]
        g      == last.grads[p].data
        p_norm == Norm(x)
        g_norm == Norm(g)
        rate   == GroupOf(p).lr
        pre    == Sqrt(RAdd(One, RMul(rate, rate)))
    IN  IF RGt(p_norm, Zero) /\ RGt(g_norm, Zero)
        THEN RDiv(RSub(x, RMul(RMul(rate, g), RDiv(p_norm, g_norm))), pre)
        ELSE RDiv(RSub(x, RMul(rate, g)), pre)

\* ... and what the projection onto the ball of radius max_norm leaves of it
ExpectedFinal(p) ==
    LET m == ExpectedMid(p)
    IN  IF Bounded(p) /\ RGt(Norm(m), state[p]["max"])
        THEN RMul(m, RDiv(state[p]["max"], Norm(m)))
        ELSE m

\* C1, as stated: once reset() was called on a group with p_bound set while
\* the norm of a parameter was P0, the norm of the parameter is at most
\* P0 * p_bound after every later step, whatever its gradient was.
C1_BoundAfterEveryStep ==
    Ready =>
        \A p \in Params :
            (Bounded(p) /\ est[p].by = "reset" /\ last.op = "step")
                => RLe(Norm(value[p]), RMul(est[p].norm, PB(p)))

\* C1, amended: ... the norm is at most P0 * p_bound after every later step,
\* provided p_bound >= 1 or some step since that reset has updated the
\* parameter (it had a dense gradient and the step got to it).
C1_BoundOnceUpdated ==
    Ready =>
        \A p \in Params :
            (/\ Bounded(p) /\ est[p].by = "reset" /\ last.op = "step"
             /\ (est[p].updated \/ RLe(One, PB(p))))
                => RLe(Norm(value[p]), RMul(est[p].norm, PB(p)))

C1_Witness ==
    /\ Ready
    /\ \E p \in Params :
          /\ Bounded(p) /\ est[p].by = "reset" /\ last.op = "step"
          /\ RGt(est[p].norm, Zero)
          /\ Processed(p, last.grads) /\ Projected(p)
          /\ Norm(value[p]) = RMul(est[p].norm, PB(p))

\* C2: in a group with p_bound set, the stored max_norm of a parameter is
\* p_bound times the norm the parameter had at its most recent reset or, if
\* there was none, at the start of the first step that processed it; there is
\* no max_norm before that; a step leaves an established max_norm as it is
\* and a reset overwrites it.
C2_MaxNormEstablished ==
    Ready =>
        \A p \in Params :
            Bounded(p) =>
                /\ est[p].by = "none" => ~HasMax(state, p)
                /\ est[p].by # "none" =>
                      /\ HasMax(state, p)
                      /\ state[p]["max"] = RMul(PB(p), est[p].norm)
                /\ (last.op = "step" /\ HasMax(last.state, p)) =>
                      /\ HasMax(state, p)
                      /\ state[p]["max"] = last.state[p]["max"]
                /\ last.op = "reset" =>
                      /\ HasMax(state, p)
                      /\ state[p]["max"] = RMul(PB(p), Norm(last.value[p]))

C2_Witness ==
    /\ Ready
    /\ \E p \in Params :
          /\ Bounded(p) /\ est[p].by = "step" /\ last.op = "step"
          /\ HasMax(last.state, p) /\ Processed(p, last.grads)
          /\ state[p]["max"] # RMul(PB(p), Norm(last.value[p]))

\* C3: with no p_bound given to the constructor, reset completes without
\* raising and records no max_norm, and a step on dense gradients completes
\* without raising, leaves every parameter that has a gradient at its updated
\* and damped value, and records no max_norm.
C3_NoBoundCompletes ==
    (Ready /\ "p_bound" \notin DOMAIN defaults) =>
        /\ last.op = "reset" =>
              /\ last.err = NoError
              /\ \A p \in Params : ~HasMax(state, p)
        /\ (last.op = "step" /\ \A p \in Params : ~IsSparse(last.grads[p])) =>
              /\ last.err = NoError
              /\ \A p \in Params :
                    /\ ~HasMax(state, p)
                    /\ IsDense(last.grads[p]) => value[p] = ExpectedMid(p)

\* C4: for every parameter with a dense gradient that a step gets to, the
\* value after the division by the prefactor is
\* (before - lr * gradient * (p_norm / g_norm)) / prefactor when both norms
\* are positive and (before - lr * gradient) / prefactor otherwise.
C4_UpdateRule ==
    (Ready /\ last.op = "step") =>
        \A p \in Params :
            Processed(p, last.grads) => last.mid[p] = ExpectedMid(p)

\* C5: when step gets to a parameter with a sparse gradient it raises
\* NoSparseGradientError naming Fromage; the value and the state of that
\* parameter and of every later one are as before the call, and every
\* earlier parameter with a dense gradient has its completed update.
C5_SparseRejected ==
    (Ready /\ last.op = "step") =>
        \A p \in Params :
            (IsSparse(last.grads[p]) /\ Reached(p)) =>
                /\ last.err = <<"NoSparseGradientError", "Fromage">>
                /\ \A q \in Params :
                      /\ Pos(q) >= Pos(p) =>
                            value[q] = last.value[q] /\ SameState(q)
                      /\ (Pos(q) < Pos(p) /\ IsDense(last.grads[q])) =>
                            value[q] = ExpectedFinal(q)

C5_Witness ==
    /\ Ready /\ last.op = "step"
    /\ last.err = <<"NoSparseGradientError", "Fromage">>
    /\ \E p, q \in Params :
          /\ IsSparse(last.grads[p]) /\ Reached(p)
          /\ Pos(q) < Pos(p) /\ IsDense(last.grads[q])
          /\ value[q] # last.value[q]
          /\ p \notin DOMAIN state

\* C6: a step leaves a parameter whose gradient is None as it was: the same
\* value, and the same state, with no max_norm made or changed.
C6_AbsentGradientUntouched ==
    (Ready /\ last.op = "step") =>
        \A p \in Params :
            last.grads[p] = NoGrad =>
                value[p] = last.value[p] /\ SameState(p)

C6_Witness ==
    /\ Ready /\ last.op = "step" /\ last.err = NoError
    /\ \E p, q \in Params :
          /\ last.grads[p] = NoGrad /\ Bounded(p) /\ p \notin DOMAIN state
          /\ RGt(Norm(value[p]), Zero)
          /\ IsDense(last.grads[q]) /\ value[q] # last.value[q]

\* C7: the constructor raises the invalid-configuration error exactly when
\* lr <= 0, and then there is no updater to call; with lr > 0 it succeeds,
\* leaves the parameters alone and makes no per-parameter state.
C7_Construction ==
    /\ constructed # "no" =>
          /\ RLe(lr, Zero) = (constructed = "failed")
          /\ RGt(lr, Zero) = (constructed = "yes")
    /\ constructed = "failed" =>
          /\ last.op = "init" /\ last.err = InvalidConfigurationError
          /\ param_groups = <<>> /\ calls = 0
    /\ (Ready /\ last.op = "init") =>
          /\ last.err = NoError
          /\ DOMAIN state = {}
          /\ value = last.value
          /\ last.log = <<>>

C7_Witness == constructed = "failed" /\ lr = Zero /\ last.op = "init"

\* C8: a step that returns returns the loss of the closure if one was
\* supplied and None otherwise; a supplied closure is called once, before
\* anything else the call does, also when the call then raises.
C8_ClosureAndReturn ==
    last.op = "step" =>
        /\ last.closure # None =>
              /\ Len(last.log) >= 1
              /\ last.log[1] = <<"closure", 0>>
              /\ \A i \in 2..Len(last.log) : last.log[i][1] # "closure"
        /\ last.closure = None =>
              \A i \in 1..Len(last.log) : last.log[i][1] # "closure"
        /\ last.err = NoError => last.ret = last.closure

C8_Witness ==
    /\ last.op = "step" /\ last.closure # None
    /\ last.err = <<"NoSparseGradientError", "Fromage">>
    /\ \E q \in Params : value[q] # last.value[q]

\* C9: every group of a constructed updater has a learning rate > 0.
C9_GroupLrPositive ==
    Ready => \A i \in 1..Len(param_groups) : RGt(param_groups[i]["lr"], Zero)

\* C10: with p_bound set, a parameter whose norm was zero when its max_norm
\* was established has max_norm zero and is all zeros after every call.
C10_ZeroAbsorbing ==
    Ready =>
        \A p \in Params :
            (Bounded(p) /\ est[p].by # "none" /\ est[p].norm = Zero) =>
                /\ state[p]["max"] = Zero
                /\ value[p] = Zero

C10_Witness ==
    /\ Ready /\ last.op = "step"
    /\ \E p \in Params :
          /\ Bounded(p) /\ est[p].by # "none" /\ est[p].norm = Zero
          /\ HasMax(last.state, p)
          /\ Processed(p, last.grads) /\ RGt(Norm(last.grads[p].data), Zero)
          /\ Projected(p)

====
